---- MODULE Spec2Model ----
(***************************************************************************)
(* Railway schedule optimizer: the solve pipeline of OptimizationEngine    *)
(* (optimizer/python_service/src/optimization_engine.py) with the request  *)
(* constraint registry of ConstraintBuilder (constraint_models.py).        *)
(*                                                                         *)
(* One optimize_schedule call is a walk of pc through the stages           *)
(*   idle -> variables -> constraints -> objective -> configure -> solve   *)
(*        -> process -> done                                               *)
(* The CP-SAT model is kept as the set of variable keys, their bounds and  *)
(* the set of constraints posted on them; the external solver is the       *)
(* nondeterministic choice its contract allows: OPTIMAL with a minimiser   *)
(* of the objective, FEASIBLE with any solution, INFEASIBLE when there is  *)
(* none, UNKNOWN when the time budget ran out, MODEL_INVALID when a        *)
(* variable has an empty domain.                                           *)
(* Times are minutes from request.requested_at; scheduled departures are   *)
(* kept in seconds so that the conversion to minutes is a real one.        *)
(* Python enum members and plain strings are distinct values: a member of  *)
(* TrainPriority / ObjectiveType / ConstraintType is never equal to, nor   *)
(* found under, a str key.  Both are modelled: repr = "enum" or "str".     *)
(***************************************************************************)
EXTENDS Integers, Sequences, FiniteSets, TLC

VARIABLES pc, request, model, solver, response, raised,
          previous, active_requests, rpc, status_response, poll

vars == <<pc, request, model, solver, response, raised,
          previous, active_requests, rpc, status_response, poll>>

\* what a step of optimize_schedule leaves alone: the record of the call
\* before, kept to compare two runs, and the state of the gRPC service
outside == <<previous, active_requests, rpc, status_response, poll>>

\* what a step of the gRPC service leaves alone
engine == <<pc, request, model, solver, response, raised, previous>>

(***************************************************************************)
(* Bounds of the model                                                     *)
(***************************************************************************)
MaxTrains == 2
MaxHorizon == 14

(***************************************************************************)
(* Program constants                                                       *)
(***************************************************************************)
NumPlatforms == 10
MinDelay == -30
max_delay == 60
minimum_headway == 5
SectionKm == 10
SpeedCapKmh == 80
MinSpeedKmh == 20

(***************************************************************************)
(* Values                                                                  *)
(***************************************************************************)
Enum(n) == [repr |-> "enum", name |-> n]
Str(n) == [repr |-> "str", name |-> n]

TrainPriority == {"EMERGENCY", "EXPRESS", "MAIL", "PASSENGER", "FREIGHT", "MAINTENANCE"}

OptimizationStatus ==
    {"OPTIMAL", "FEASIBLE", "INFEASIBLE", "UNKNOWN", "TIME_LIMIT_EXCEEDED", "ERROR"}

\* the outcomes of cp_model's CpSolver.Solve
CpSolverStatus == {"OPTIMAL", "FEASIBLE", "INFEASIBLE", "UNKNOWN", "MODEL_INVALID"}

Train(id, priority, speed, dep, origin, dest, sections) ==
    [id |-> id, priority |-> priority, max_speed_kmh |-> speed,
     scheduled_departure_s |-> dep, origin_station |-> origin,
     destination_station |-> dest, route_sections |-> sections]

\* the trains requests are made of
TrainT1 == Train("T1", Enum("EXPRESS"), 120, 0 - 90, "StationA", "StationB", <<"S1">>)
TrainT2 == Train("T2", Enum("PASSENGER"), 90, 330, "StationA", "StationC", <<"S1">>)
TrainT3 == Train("T3", Str("MAIL"), 100, 2250, "StationD", "StationB", <<"S1">>)
TrainT4 == Train("T4", Enum("FREIGHT"), 120, 0 - 3600, "StationE", "StationA", <<"S2">>)
TrainT5 == Train("T5", Enum("FREIGHT"), 0, 0, "StationE", "StationF", <<"S3">>)

TrainCatalogue == {TrainT1, TrainT2, TrainT3, TrainT4, TrainT5}

TrainLists == UNION {[1..n -> TrainCatalogue] : n \in 0..MaxTrains}

Horizons == {0 - 1, 0, 9, MaxHorizon}

Objectives == {Enum("MINIMIZE_DELAY"), Str("MAXIMIZE_THROUGHPUT"), Str("BALANCED_OPTIMAL")}

Constraint(id, type, numeric, seconds) ==
    [id |-> id, type |-> type, numeric |-> numeric, min_distance_seconds |-> seconds]

\* a MAINTENANCE_WINDOW constraint: parameters 'start_time_minutes' and
\* 'end_time_minutes'
MaintenanceWindow(id, type, start_time_minutes, end_time_minutes) ==
    [id |-> id, type |-> type, numeric |-> TRUE,
     start_time_minutes |-> start_time_minutes,
     end_time_minutes |-> end_time_minutes]

\* a SPEED_LIMIT constraint: parameters 'max_speed_kmh' and 'sections', the
\* latter as the sequence of its characters
SpeedLimit(id, type, max_speed_kmh, sections) ==
    [id |-> id, type |-> type, numeric |-> TRUE,
     max_speed_kmh |-> max_speed_kmh, sections |-> sections]

\* no constraint, or four of them: one whose type is a ConstraintType member
\* (as the tests build it), one of a kind no handler exists for, one whose
\* parameter 'min_distance_seconds' is no number (numeric is FALSE: int()
\* raises ValueError on it) and a well-formed one whose type is the plain str
ConstraintLists ==
    {<<>>,
     <<Constraint("safety_1", Enum("SAFETY_DISTANCE"), TRUE, 300),
       Constraint("custom_1", Str("NOT_A_KIND"), TRUE, 0),
       Constraint("safety_3", Str("SAFETY_DISTANCE"), FALSE, 0),
       Constraint("safety_2", Str("SAFETY_DISTANCE"), TRUE, 60)>>}

\* models.py WeightedObjective: a secondary objective and its weight, kept
\* in hundredths.  OptimizationObjective.secondary_objectives is the field
\* secondary_objectives of the request here, primary_objective its field
\* objective.
WeightedObjective(objective, weight_x100) ==
    [objective |-> objective, weight_x100 |-> weight_x100]

\* models.py OptimizationConfig defaults
OptimizationConfig ==
    [max_solver_time_seconds |-> 30, num_search_workers |-> 4, strategy |-> "AUTOMATIC"]

Requests ==
    [request_id : {"REQ1"},
     time_horizon_minutes : Horizons,
     trains : TrainLists,
     constraints : ConstraintLists,
     objective : Objectives,
     secondary_objectives : {<<>>},
     config : {OptimizationConfig}]

NoRequest ==
    [request_id |-> "", time_horizon_minutes |-> 0, trains |-> <<>>,
     constraints |-> <<>>, objective |-> Enum("MINIMIZE_DELAY"),
     secondary_objectives |-> <<>>,
     config |-> OptimizationConfig]

(***************************************************************************)
(* Helpers                                                                 *)
(***************************************************************************)
Min(a, b) == IF a <= b THEN a ELSE b

Max(a, b) == IF a >= b THEN a ELSE b

Range(s) == {s[k] : k \in DOMAIN s}

\* Python int(x / d) for d > 0: truncation toward zero
TruncDiv(x, d) == IF x >= 0 THEN x \div d ELSE 0 - ((0 - x) \div d)

\* set(train1.route_sections) & set(train2.route_sections)
shared_sections(train1, train2) ==
    Range(train1.route_sections) \cap Range(train2.route_sections)

\* faulty variant: the estimate rounded up to the next whole minute
calculate_journey_time_Ceil(train) ==
    LET total_distance == Len(train.route_sections) * SectionKm
        average_speed_x10 == Min(train.max_speed_kmh * 8, SpeedCapKmh * 10)
    IN  (total_distance * 60 * 10 + average_speed_x10 - 1) \div average_speed_x10

\* _calculate_journey_time: int(len * 10 / min(0.8 * v, 80) * 60), v > 0.
\* Speeds are kept times ten so that 0.8 * v stays an integer.
\* The catalogue holds speeds for which the double-precision value truncates
\* to this quotient (capped trains, or a quotient that is no whole number).
calculate_journey_time(train) ==
    LET total_distance == Len(train.route_sections) * SectionKm
        average_speed_x10 == Min(train.max_speed_kmh * 8, SpeedCapKmh * 10)
    IN  (total_distance * 60 * 10) \div average_speed_x10

\* _datetime_to_minutes: int(delta.total_seconds() / 60)
datetime_to_minutes(delta_s) == TruncDiv(delta_s, 60)

\* priority_order.get(train.priority, 6): the table is keyed by str
priority_order(priority) ==
    IF priority.repr = "str" /\ priority.name \in TrainPriority
    THEN CASE priority.name = "EMERGENCY" -> 1
           [] priority.name = "EXPRESS" -> 2
           [] priority.name = "MAIL" -> 3
           [] priority.name = "PASSENGER" -> 4
           [] priority.name = "FREIGHT" -> 5
           [] priority.name = "MAINTENANCE" -> 6
    ELSE 6

(***************************************************************************)
(* The CP-SAT model: variables (the keys of the engine's variables dict,   *)
(* with their bounds) and the constraints posted on them.  A constraint is *)
(* [kind, a, b, n]: a and b are train ids, n an integer parameter.         *)
(***************************************************************************)
Con(kind, a, b, n) == [kind |-> kind, a |-> a, b |-> b, n |-> n]

NoObjective == [sense |-> "none", kind |-> "none", terms |-> <<>>]

NoModel ==
    [train_ids |-> {}, horizon |-> 0, speed_vars |-> {}, constraints |-> {},
     custom_results |-> <<>>, objective |-> NoObjective]

\* _create_decision_variables: start/end in [0, horizon], platform in
\* [1, 10], delay in [-30, 60] under each train id, one speed variable in
\* [20, int(max_speed_kmh)] per (train, section).  The occupancy booleans
\* take part in no constraint and are left out.
create_decision_variables(req) ==
    [train_ids |-> {req.trains[k].id : k \in DOMAIN req.trains},
     horizon |-> req.time_horizon_minutes,
     speed_vars |->
        UNION {{[train |-> req.trains[k].id, section |-> sec,
                 lo |-> MinSpeedKmh, hi |-> req.trains[k].max_speed_kmh] :
                    sec \in Range(req.trains[k].route_sections)} :
               k \in DOMAIN req.trains},
     constraints |-> {},
     custom_results |-> <<>>,
     objective |-> NoObjective]

\* _add_timing_constraints: end == start + journey_time and
\* start == scheduled_start + delay, for every train of the request
add_timing_constraints(req) ==
    UNION {{Con("end_eq", req.trains[k].id, req.trains[k].id,
                calculate_journey_time(req.trains[k])),
            Con("start_eq", req.trains[k].id, req.trains[k].id,
                datetime_to_minutes(req.trains[k].scheduled_departure_s))} :
           k \in DOMAIN req.trains}

\* station_trains[station]: every train is appended under its origin and
\* then under its destination, in request order (twice under the same key
\* when the two stations are equal)
RECURSIVE station_trains(_, _)
station_trains(trains, station) ==
    IF trains = <<>> THEN <<>>
    ELSE LET train == Head(trains)
         IN  (IF train.origin_station = station THEN <<train>> ELSE <<>>)
             \o (IF train.destination_station = station THEN <<train>> ELSE <<>>)
             \o station_trains(Tail(trains), station)

Stations(req) ==
    {req.trains[k].origin_station : k \in DOMAIN req.trains}
    \cup {req.trains[k].destination_station : k \in DOMAIN req.trains}

\* the index pairs (i, j), i < j, of the nested enumerate loops
IndexPairs(n) == {p \in (1..n) \X (1..n) : p[1] < p[2]}

\* _add_platform_constraints: one platform-conflict constraint for every
\* pair of positions i < j of every station's list
add_platform_constraints(req) ==
    UNION {LET trains == station_trains(req.trains, station)
           IN  {Con("platform_conflict", trains[p[1]].id, trains[p[2]].id, 0) :
                    p \in IndexPairs(Len(trains))}
           : station \in Stations(req)}

\* _add_safety_constraints: a headway constraint for every pair i < j of
\* the request's trains whose routes share a section
add_safety_constraints(req) ==
    {Con("headway", req.trains[p[1]].id, req.trains[p[2]].id, minimum_headway) :
        p \in {q \in IndexPairs(Len(req.trains)) :
                  shared_sections(req.trains[q[1]], req.trains[q[2]]) # {}}}

\* _add_priority_constraints: start1 <= start2 for every pair i < j with
\* priority_order.get(priority1, 6) < priority_order.get(priority2, 6)
\* and a shared section
add_priority_constraints(req) ==
    {Con("precede", req.trains[p[1]].id, req.trains[p[2]].id, 0) :
        p \in {q \in IndexPairs(Len(req.trains)) :
                  /\ priority_order(req.trains[q[1]].priority)
                        < priority_order(req.trains[q[2]].priority)
                  /\ shared_sections(req.trains[q[1]], req.trains[q[2]]) # {}}}

\* _add_route_constraints: one section_time variable in [0, horizon] per
\* section of a train, each at least one minute after the previous one
add_route_constraints(req) ==
    {Con("route_seq", req.trains[k].id, req.trains[k].id,
         Len(req.trains[k].route_sections)) : k \in DOMAIN req.trains}

\* ConstraintBuilder.constraint_registry: the kinds, keyed by str
constraint_registry ==
    {"SAFETY_DISTANCE", "PLATFORM_CAPACITY", "TRAIN_PRIORITY", "MAINTENANCE_WINDOW",
     "SPEED_LIMIT", "CROSSING_TIME", "SIGNAL_SPACING", "ENERGY_EFFICIENCY",
     "PASSENGER_TRANSFER"}

\* _add_safety_distance_constraint: for every pair of variable keys, one
\* train starts min_distance_seconds // 60 after the other's end
add_safety_distance_constraint(m, constraint) ==
    {Con("safety_distance", p[1], p[2], constraint.min_distance_seconds \div 60) :
        p \in {q \in m.train_ids \X m.train_ids : q[1] # q[2]}}

\* _add_maintenance_window_constraint: four constraints on two fresh
\* booleans for every train id
add_maintenance_window_constraint(m, constraint) ==
    {[kind |-> "maintenance_window", a |-> id, b |-> id,
      n |-> constraint.start_time_minutes, end_window |-> constraint.end_time_minutes] :
        id \in m.train_ids}

\* the characters of the train ids and section names speed variables are
\* keyed by
Chars(name) ==
    CASE name = "T1" -> <<"T", "1">>
      [] name = "T2" -> <<"T", "2">>
      [] name = "S1" -> <<"S", "1">>
      [] name = "S2" -> <<"S", "2">>
      [] name = "S10" -> <<"S", "1", "0">>

\* str.split(','): the pieces between the commas, one piece when there is
\* no comma, the empty string included
RECURSIVE split(_)
split(chars) ==
    IF \A i \in DOMAIN chars : chars[i] # ","
    THEN <<chars>>
    ELSE LET i == CHOOSE j \in DOMAIN chars :
                     /\ chars[j] = ","
                     /\ \A k \in 1..(j - 1) : chars[k] # ","
         IN  <<SubSeq(chars, 1, i - 1)>> \o split(SubSeq(chars, i + 1, Len(chars)))

\* the operator in of two str: sub occurs in chars
Contains(sub, chars) ==
    \E i \in 1..(Len(chars) - Len(sub) + 1) :
        SubSeq(chars, i, i + Len(sub) - 1) = sub

\* the key f'{train_id}_{section}' of a speed variable
speed_key(sv) == Chars(sv.train) \o <<"_">> \o Chars(sv.section)

\* _add_speed_limit_constraint: speed_var <= int(max_speed) for every piece
\* of 'sections' and every speed variable whose key the piece occurs in.
\* The constraint carries the bounds of its variable.
add_speed_limit_constraint(m, constraint) ==
    {[kind |-> "speed_limit", a |-> sv.train, b |-> sv.section,
      n |-> constraint.max_speed_kmh, lo |-> sv.lo, hi |-> sv.hi] :
        sv \in {v \in m.speed_vars :
                  \E section \in Range(split(constraint.sections)) :
                      Contains(section, speed_key(v))}}

\* the handler of the constraint's kind raises: int() of a parameter that
\* is no number
handler_raises(constraint) ==
    constraint.type.name = "SAFETY_DISTANCE" /\ ~constraint.numeric

\* what the handler of the constraint's kind posts
handler_constraints(m, constraint) ==
    CASE constraint.type.name = "SAFETY_DISTANCE" ->
            add_safety_distance_constraint(m, constraint)
      [] constraint.type.name = "MAINTENANCE_WINDOW" ->
            add_maintenance_window_constraint(m, constraint)
      [] constraint.type.name = "SPEED_LIMIT" ->
            add_speed_limit_constraint(m, constraint)
      [] OTHER -> {}

\* faulty variant: neither the registry lookup nor the handler is guarded
add_constraint_Unguarded(m, constraint) ==
    IF ~(constraint.type.repr = "str" /\ constraint.type.name \in constraint_registry)
    THEN [added |-> FALSE, raised |-> "KeyError", constraints |-> {}]
    ELSE IF handler_raises(constraint)
         THEN [added |-> FALSE, raised |-> "invalid literal for int() with base 10",
               constraints |-> {}]
         ELSE [added |-> TRUE, raised |-> "",
               constraints |-> handler_constraints(m, constraint)]

\* ConstraintBuilder.add_constraint: its return value, the exception it lets
\* out ("" for none) and the constraints the handler of the kind posted.
\* False when constraint.type is not a key of the registry, and when the
\* handler raised (except Exception: return False)
add_constraint(m, constraint) ==
    IF ~(constraint.type.repr = "str" /\ constraint.type.name \in constraint_registry)
    THEN [added |-> FALSE, raised |-> "", constraints |-> {}]
    ELSE IF handler_raises(constraint)
         THEN [added |-> FALSE, raised |-> "", constraints |-> {}]
         ELSE [added |-> TRUE, raised |-> "",
               constraints |-> handler_constraints(m, constraint)]

\* _add_custom_constraints: add_constraint for every request constraint, an
\* exception of one call being logged and the loop going on
add_custom_constraints(m, req) ==
    UNION {add_constraint(m, req.constraints[k]).constraints :
              k \in DOMAIN req.constraints}

\* what add_constraint returned or raised for each request constraint
custom_results(m, req) ==
    [k \in DOMAIN req.constraints |->
        [added |-> add_constraint(m, req.constraints[k]).added,
         raised |-> add_constraint(m, req.constraints[k]).raised]]

\* _add_constraints: the six groups, in the source's order
add_constraints(m, req) ==
    [m EXCEPT !.custom_results = custom_results(m, req),
              !.constraints =
        add_timing_constraints(req)
        \cup add_platform_constraints(req)
        \cup add_safety_constraints(req)
        \cup add_priority_constraints(req)
        \cup add_route_constraints(req)
        \cup add_custom_constraints(m, req)]

(***************************************************************************)
(* Semantics of the model: the assignments CP-SAT may return.  An          *)
(* assignment gives every train id a start, end, delay and platform; the   *)
(* booleans the engine creates (same_platform, no_overlap, order, ...)     *)
(* occur only inside one constraint each and are quantified there.         *)
(***************************************************************************)
\* _add_platform_conflict_constraint, faulty variant: the ordering in which
\* train2 goes first is not posted
add_platform_conflict_constraint_OneOrder(v1, v2) ==
    \E same_platform \in BOOLEAN, no_overlap \in BOOLEAN :
        /\ same_platform => v1.platform = v2.platform
        /\ ~same_platform => v1.platform # v2.platform
        /\ (same_platform /\ no_overlap) => v1.end <= v2.start

\* _add_platform_conflict_constraint on the variables v1, v2 of two trains
add_platform_conflict_constraint(v1, v2) ==
    \E same_platform \in BOOLEAN, no_overlap \in BOOLEAN :
        /\ same_platform => v1.platform = v2.platform
        /\ ~same_platform => v1.platform # v2.platform
        /\ (same_platform /\ no_overlap) => v1.end <= v2.start
        /\ (same_platform /\ ~no_overlap) => v2.end <= v1.start

\* _add_headway_constraint, faulty variant: the headway is left out of the
\* ordering in which train1 goes first
add_headway_constraint_OneSided(v1, v2, min_headway) ==
    \E order_bool \in BOOLEAN :
        /\ order_bool => v1.start >= v2.start + min_headway
        /\ ~order_bool => v2.start >= v1.start

\* _add_headway_constraint on the variables v1, v2 of two trains
add_headway_constraint(v1, v2, min_headway) ==
    \E order_bool \in BOOLEAN :
        /\ order_bool => v1.start >= v2.start + min_headway
        /\ ~order_bool => v2.start >= v1.start + min_headway

\* faulty variant: the gap is enforced only when train1 goes first
safety_distance_pair_OneWay(v1, v2, gap) ==
    \E train1_first \in BOOLEAN :
        train1_first => v2.start >= v1.end + gap

\* the two conditional constraints _add_safety_distance_constraint posts
\* for one pair
safety_distance_pair(v1, v2, gap) ==
    \E train1_first \in BOOLEAN :
        /\ train1_first => v2.start >= v1.end + gap
        /\ ~train1_first => v1.start >= v2.end + gap

\* the four constraints _add_maintenance_window_constraint posts for one
\* train: three enforced only if one of the booleans holds, and the clause
\* maintenance_conflict or not journey_overlaps
maintenance_window_train(v, start_window, end_window) ==
    \E maintenance_conflict \in BOOLEAN, journey_overlaps \in BOOLEAN :
        /\ journey_overlaps => v.start < end_window
        /\ journey_overlaps => v.end > start_window
        /\ maintenance_conflict => v.end <= start_window
        /\ maintenance_conflict \/ ~journey_overlaps

Holds(c, a, horizon) ==
    CASE c.kind = "end_eq" -> a[c.a].end = a[c.a].start + c.n
      [] c.kind = "start_eq" -> a[c.a].start = c.n + a[c.a].delay
      [] c.kind = "platform_conflict" -> add_platform_conflict_constraint(a[c.a], a[c.b])
      [] c.kind = "headway" -> add_headway_constraint(a[c.a], a[c.b], c.n)
      [] c.kind = "precede" -> a[c.a].start <= a[c.b].start
      [] c.kind = "route_seq" -> c.n <= 1 \/ c.n - 1 <= horizon
      [] c.kind = "safety_distance" -> safety_distance_pair(a[c.a], a[c.b], c.n)
      [] c.kind = "maintenance_window" ->
            maintenance_window_train(a[c.a], c.n, c.end_window)
      [] c.kind = "speed_limit" -> \E speed \in c.lo..c.hi : speed <= c.n
      [] OTHER -> FALSE

\* the constraints that read no platform variable
TimeConstraints(m) == {c \in m.constraints : c.kind # "platform_conflict"}

PlatformConstraints(m) == {c \in m.constraints : c.kind = "platform_conflict"}

\* faulty variant: the end of a journey is not held inside the horizon
TimeValues_OpenEnd(m, id) ==
    LET ends == {c \in m.constraints : c.kind = "end_eq" /\ c.a = id}
        starts == {c \in m.constraints : c.kind = "start_eq" /\ c.a = id}
        EndsOf(s) == IF ends = {} THEN 0..m.horizon
                     ELSE {s + c.n : c \in ends}
        DelaysOf(s) == IF starts = {} THEN MinDelay..max_delay
                       ELSE {s - c.n : c \in starts} \cap (MinDelay..max_delay)
    IN  UNION {{[start |-> s, end |-> e, delay |-> d, platform |-> 1] :
                    e \in EndsOf(s), d \in DelaysOf(s)} : s \in 0..m.horizon}

\* the (start, end, delay) values of one train id inside the variable
\* bounds; the timing equalities on the id, when posted, leave one end and
\* one delay per start (they are checked again with every other constraint)
TimeValues(m, id) ==
    LET ends == {c \in m.constraints : c.kind = "end_eq" /\ c.a = id}
        starts == {c \in m.constraints : c.kind = "start_eq" /\ c.a = id}
        EndsOf(s) == IF ends = {} THEN 0..m.horizon
                     ELSE {s + c.n : c \in ends} \cap (0..m.horizon)
        DelaysOf(s) == IF starts = {} THEN MinDelay..max_delay
                       ELSE {s - c.n : c \in starts} \cap (MinDelay..max_delay)
    IN  UNION {{[start |-> s, end |-> e, delay |-> d, platform |-> 1] :
                    e \in EndsOf(s), d \in DelaysOf(s)} : s \in 0..m.horizon}

RECURSIVE TimeAssignments(_, _)
TimeAssignments(m, ids) ==
    IF ids = {} THEN {<<>>}
    ELSE LET id == CHOOSE x \in ids : TRUE
         IN  {(id :> v) @@ rest : v \in TimeValues(m, id),
                                  rest \in TimeAssignments(m, ids \ {id})}

\* faulty variant: platform numbers counted from zero
platform_assignments_domain_FromZero == 0..NumPlatforms

\* platform_assignments: model.NewIntVar(1, 10, f'platform_{train_id}')
platform_assignments_domain == 1..NumPlatforms

WithPlatforms(t, p) == [id \in DOMAIN t |-> [t[id] EXCEPT !.platform = p[id]]]

\* the start, end and delay values that satisfy every constraint on them
TimeSolutions(m) ==
    {t \in TimeAssignments(m, m.train_ids) :
        \A c \in TimeConstraints(m) : Holds(c, t, m.horizon)}

\* the platform values that, with the times t, satisfy the platform
\* constraints
PlatformChoices(m, t) ==
    {q \in [m.train_ids -> platform_assignments_domain] :
        \A c \in PlatformConstraints(m) : Holds(c, WithPlatforms(t, q), m.horizon)}

\* the times that some platform assignment completes to a solution
FeasibleTimes(m) == {t \in TimeSolutions(m) : PlatformChoices(m, t) # {}}

\* every assignment within the bounds that satisfies every constraint
Solutions(m) ==
    UNION {{WithPlatforms(t, p) : p \in PlatformChoices(m, t)} : t \in TimeSolutions(m)}

\* faulty variant: a model without variables is rejected
ModelValid_NeedsTrains(m) ==
    /\ m.train_ids # {}
    /\ m.horizon >= 0
    /\ \A sv \in m.speed_vars : sv.lo <= sv.hi

\* a variable with an empty domain makes the model invalid
ModelValid(m) ==
    /\ m.train_ids # {} => m.horizon >= 0
    /\ \A sv \in m.speed_vars : sv.lo <= sv.hi

\* the solver has a search to run, which its time budget can cut short: a
\* model without variables is solved while it is loaded
NeedsSearch(m) == m.train_ids # {}

(***************************************************************************)
(* Objective                                                               *)
(***************************************************************************)
RECURSIVE Sum(_)
Sum(seq) == IF seq = <<>> THEN 0 ELSE Head(seq) + Sum(Tail(seq))

\* sum(...) over the request's trains of a term of each train's variables
SumOver(terms, a, Term(_)) == Sum([k \in DOMAIN terms |-> Term(a[terms[k]])])

TrainIds(req) == [k \in DOMAIN req.trains |-> req.trains[k].id]

\* _set_objective: primary_objective is compared with str literals
set_objective(m, req) ==
    LET primary == req.objective
        IsStr(name) == primary.repr = "str" /\ primary.name = name
    IN  [m EXCEPT !.objective =
            IF IsStr("MINIMIZE_DELAY")
            THEN [sense |-> "min", kind |-> "delay", terms |-> TrainIds(req)]
            ELSE IF IsStr("MAXIMIZE_THROUGHPUT")
            THEN [sense |-> "max", kind |-> "on_time", terms |-> TrainIds(req)]
            ELSE IF IsStr("BALANCED_OPTIMAL")
            THEN [sense |-> "min", kind |-> "balanced", terms |-> TrainIds(req)]
            ELSE [sense |-> "min", kind |-> "delay", terms |-> TrainIds(req)]]

DelayTerm(v) == v.delay

OnTimeTerm(v) == IF v.delay <= 5 THEN 1 ELSE 0

BalancedTerm(v) == v.delay - 10 * (IF v.delay <= 3 THEN 1 ELSE 0)

\* the value the solver minimises (a maximised objective is negated)
ObjectiveValue(obj, a) ==
    CASE obj.kind = "delay" -> SumOver(obj.terms, a, DelayTerm)
      [] obj.kind = "on_time" -> 0 - SumOver(obj.terms, a, OnTimeTerm)
      [] obj.kind = "balanced" -> SumOver(obj.terms, a, BalancedTerm)
      [] OTHER -> 0

OptimalSolutions(m) ==
    LET sols == Solutions(m)
        values == {ObjectiveValue(m.objective, a) : a \in sols}
        best == CHOOSE v \in values : \A w \in values : v <= w
    IN  {a \in sols : ObjectiveValue(m.objective, a) = best}

\* the times of the optimal solutions: no objective reads a platform
OptimalTimes(m) ==
    LET times == FeasibleTimes(m)
        values == {ObjectiveValue(m.objective, t) : t \in times}
        best == CHOOSE v \in values : \A w \in values : v <= w
    IN  {t \in times : ObjectiveValue(m.objective, t) = best}

(***************************************************************************)
(* Solver configuration and the response                                   *)
(***************************************************************************)
NoSolver ==
    [parameters |-> [max_time_in_seconds |-> 0, num_search_workers |-> 0,
                     search_branching |-> "AUTOMATIC"],
     status |-> "NONE", values |-> <<>>]

\* _configure_solver
configure_solver(s, config) ==
    [s EXCEPT !.parameters =
        [max_time_in_seconds |-> config.max_solver_time_seconds,
         num_search_workers |-> config.num_search_workers,
         search_branching |->
            IF config.strategy \in {"FIXED_SEARCH", "PORTFOLIO_SEARCH"}
            THEN config.strategy ELSE s.parameters.search_branching]]

\* _calculate_confidence_score, in hundredths
calculate_confidence_score(status) ==
    IF status = "OPTIMAL" THEN 100
    ELSE IF status = "FEASIBLE" THEN 85
    ELSE IF status = "TIME_LIMIT_EXCEEDED" THEN 75
    ELSE 0

\* _get_status_message
get_status_message(status) ==
    CASE status = "OPTIMAL" -> "Optimal solution found"
      [] status = "FEASIBLE" -> "Feasible solution found"
      [] status = "INFEASIBLE" -> "Problem is infeasible"
      [] status = "UNKNOWN" -> "Solver status unknown"
      [] status = "MODEL_INVALID" -> "Model is invalid"
      [] OTHER -> "Unknown status"

\* faulty variant: the native UNKNOWN is passed through
opt_status_Passthrough(status) ==
    IF status \in {"OPTIMAL", "FEASIBLE", "INFEASIBLE", "UNKNOWN"} THEN status
    ELSE "ERROR"

\* the if/elif chain at the head of _process_solution
opt_status(status) ==
    IF status = "OPTIMAL" THEN "OPTIMAL"
    ELSE IF status = "FEASIBLE" THEN "FEASIBLE"
    ELSE IF status = "INFEASIBLE" THEN "INFEASIBLE"
    ELSE IF status = "UNKNOWN" THEN "TIME_LIMIT_EXCEEDED"
    ELSE "ERROR"

\* one TrainScheduleEntry: departure and arrival are requested_at plus the
\* solved start and end minutes, kept here as the offsets
schedule_entry(train, v) ==
    [train_id |-> train.id, departure |-> v.start, arrival |-> v.end,
     platform |-> v.platform, delay_adjustment_minutes |-> v.delay]

\* PerformanceMetrics(): every field at its default.  A float that is a
\* quotient of integers is kept as the fraction num / den.
PerformanceMetrics ==
    [total_delay_minutes |-> 0, average_delay_per_train |-> [num |-> 0, den |-> 1]]

NoResponse ==
    [request_id |-> "", status |-> "NONE", optimized_schedule |-> <<>>,
     kpis |-> PerformanceMetrics, reasoning |-> "",
     confidence_score |-> 0, error_message |-> ""]

\* the sum over the entries of max(0, entry.delay_adjustment_minutes)
positive_delay(schedule) ==
    Sum([k \in DOMAIN schedule |-> Max(0, schedule[k].delay_adjustment_minutes)])

\* faulty variant: early trains offset late ones
calculate_performance_metrics_Net(schedule) ==
    LET total_delay == Sum([k \in DOMAIN schedule |->
                                schedule[k].delay_adjustment_minutes])
    IN  [total_delay_minutes |-> total_delay,
         average_delay_per_train |->
            IF schedule # <<>> THEN [num |-> total_delay, den |-> Len(schedule)]
            ELSE [num |-> 0, den |-> 1]]

\* _calculate_performance_metrics: total_delay and avg_delay
calculate_performance_metrics(schedule) ==
    LET total_delay == positive_delay(schedule)
    IN  [total_delay_minutes |-> total_delay,
         average_delay_per_train |->
            IF schedule # <<>> THEN [num |-> total_delay, den |-> Len(schedule)]
            ELSE [num |-> 0, den |-> 1]]

\* f"{status}" of a native solver status: the value of the protobuf enum
native_text(status) ==
    CASE status = "UNKNOWN" -> "0"
      [] status = "MODEL_INVALID" -> "1"
      [] status = "FEASIBLE" -> "2"
      [] status = "INFEASIBLE" -> "3"
      [] status = "OPTIMAL" -> "4"
      [] OTHER -> "?"

\* _generate_reasoning; total_delay is a whole number, printed with one
\* decimal
generate_reasoning(status, total_delay, num_trains) ==
    CASE status = "OPTIMAL" ->
            "Found optimal solution for " \o ToString(num_trains) \o " trains. "
            \o "Total delay minimized to " \o ToString(total_delay) \o ".0 minutes. "
            \o "All constraints satisfied."
      [] status = "FEASIBLE" ->
            "Found feasible solution for " \o ToString(num_trains) \o " trains. "
            \o "Total delay: " \o ToString(total_delay) \o ".0 minutes. "
            \o "Solution may not be globally optimal due to time constraints."
      [] status = "INFEASIBLE" ->
            "No feasible solution found. Consider relaxing constraints, "
            \o "extending time horizon, or reducing train density."
      [] OTHER -> "Optimization completed with status: OptimizationStatus." \o status

\* faulty variant: the entries are assembled in reverse input order
process_solution_Reversed(s, req) ==
    IF s.status \in {"OPTIMAL", "FEASIBLE"}
    THEN LET optimized_schedule ==
                [k \in DOMAIN req.trains |->
                    schedule_entry(req.trains[Len(req.trains) + 1 - k],
                                   s.values[req.trains[Len(req.trains) + 1 - k].id])]
         IN  [request_id |-> req.request_id,
              status |-> opt_status(s.status),
              optimized_schedule |-> optimized_schedule,
              kpis |-> calculate_performance_metrics(optimized_schedule),
              reasoning |-> generate_reasoning(opt_status(s.status),
                                               positive_delay(optimized_schedule),
                                               Len(req.trains)),
              confidence_score |-> calculate_confidence_score(opt_status(s.status)),
              error_message |-> ""]
    ELSE [request_id |-> req.request_id,
          status |-> opt_status(s.status),
          optimized_schedule |-> <<>>,
          kpis |-> PerformanceMetrics,
          reasoning |-> "Optimization failed with status: " \o native_text(s.status),
          confidence_score |-> 0,
          error_message |-> get_status_message(s.status)]

\* _process_solution
process_solution(s, req) ==
    IF s.status \in {"OPTIMAL", "FEASIBLE"}
    THEN LET optimized_schedule ==
                [k \in DOMAIN req.trains |->
                    schedule_entry(req.trains[k], s.values[req.trains[k].id])]
         IN  [request_id |-> req.request_id,
              status |-> opt_status(s.status),
              optimized_schedule |-> optimized_schedule,
              kpis |-> calculate_performance_metrics(optimized_schedule),
              reasoning |-> generate_reasoning(opt_status(s.status),
                                               positive_delay(optimized_schedule),
                                               Len(req.trains)),
              confidence_score |-> calculate_confidence_score(opt_status(s.status)),
              error_message |-> ""]
    ELSE [request_id |-> req.request_id,
          status |-> opt_status(s.status),
          optimized_schedule |-> <<>>,
          kpis |-> PerformanceMetrics,
          reasoning |-> "Optimization failed with status: " \o native_text(s.status),
          confidence_score |-> 0,
          error_message |-> get_status_message(s.status)]

\* faulty variant: the exception's text is replaced by a fixed message
create_error_response_Generic(req, error_msg) ==
    [request_id |-> req.request_id, status |-> "ERROR", optimized_schedule |-> <<>>,
     kpis |-> PerformanceMetrics, reasoning |-> "",
     confidence_score |-> 0, error_message |-> "Internal error"]

\* _create_error_response
create_error_response(req, error_msg) ==
    [request_id |-> req.request_id, status |-> "ERROR", optimized_schedule |-> <<>>,
     kpis |-> PerformanceMetrics, reasoning |-> "",
     confidence_score |-> 0, error_message |-> error_msg]

(***************************************************************************)
(* Exceptions.  _calculate_journey_time divides by min(0.8 * v, 80): a     *)
(* train with max_speed_kmh = 0 raises ZeroDivisionError while the timing  *)
(* constraints are added.  Besides, any stage may fail inside the library  *)
(* (a TypeError on a malformed field, a RuntimeError of the native solver).*)
(***************************************************************************)
Stages == {"variables", "constraints", "objective", "configure", "solve", "process"}

ZeroSpeed(req) == \E k \in DOMAIN req.trains : req.trains[k].max_speed_kmh = 0

StageFault(stage) ==
    CASE stage = "variables" -> "variable creation failed"
      [] stage = "constraints" -> "constraint application failed"
      [] stage = "objective" -> "objective composition failed"
      [] stage = "configure" -> "solver configuration failed"
      [] stage = "solve" -> "solve call failed"
      [] stage = "process" -> "extraction failed"

Exceptions(stage, req) ==
    IF stage = "constraints" /\ ZeroSpeed(req)
    THEN {"float division by zero"}
    ELSE {StageFault(stage)}

(***************************************************************************)
(* Actions                                                                 *)
(***************************************************************************)
\* no call has returned yet
NoPrevious ==
    [request |-> NoRequest, objective |-> NoObjective, response |-> NoResponse,
     raised |-> ""]

\* OptimizationServiceImpl.__init__: self.active_requests = {}
NoRequests == [id \in {} |-> [status |-> ""]]

\* no handler of the service is running
NoRpc ==
    [handler |-> "none", request_id |-> "", result |-> "NONE",
     relative_imports |-> TRUE]

\* no status poll has been answered yet
NoStatusResponse ==
    [request_id |-> "", status |-> "", progress_percent |-> 0,
     current_phase |-> "", estimated_completion_ms |-> 0]

\* no entry is referred to
NoEntry == [status |-> "", progress |-> 0, phase |-> "", error |-> ""]

\* no status poll is under way: the locals of GetOptimizationStatus.  live
\* tells whether request_info still is the dict the table holds under
\* request_id; entry is that dict once the table holds another one.
NoPoll ==
    [at |-> "idle", request_id |-> "", live |-> FALSE, entry |-> NoEntry,
     processing |-> FALSE, estimated_remaining_ms |-> 0,
     status |-> "", progress_percent |-> 0]

Init ==
    /\ pc = "idle"
    /\ request = NoRequest
    /\ model = NoModel
    /\ solver = NoSolver
    /\ response = NoResponse
    /\ raised = ""
    /\ previous = NoPrevious
    /\ active_requests = NoRequests
    /\ rpc = NoRpc
    /\ status_response = NoStatusResponse
    /\ poll = NoPoll

\* optimize_schedule is called: a fresh CpModel
Submit ==
    /\ pc = "idle"
    /\ \E req \in Requests : request' = req
    /\ model' = NoModel
    /\ solver' = NoSolver
    /\ response' = NoResponse
    /\ raised' = ""
    /\ pc' = "variables"
    /\ UNCHANGED outside

CreateDecisionVariables ==
    /\ pc = "variables"
    /\ model' = create_decision_variables(request)
    /\ pc' = "constraints"
    /\ UNCHANGED <<request, solver, response, raised>>
    /\ UNCHANGED outside

AddConstraints ==
    /\ pc = "constraints"
    /\ ~ZeroSpeed(request)
    /\ model' = add_constraints(model, request)
    /\ pc' = "objective"
    /\ UNCHANGED <<request, solver, response, raised>>
    /\ UNCHANGED outside

SetObjective ==
    /\ pc = "objective"
    /\ model' = set_objective(model, request)
    /\ pc' = "configure"
    /\ UNCHANGED <<request, solver, response, raised>>
    /\ UNCHANGED outside

ConfigureSolver ==
    /\ pc = "configure"
    /\ solver' = configure_solver(solver, request.config)
    /\ pc' = "solve"
    /\ UNCHANGED <<request, model, response, raised>>
    /\ UNCHANGED outside

Solved(status, values) ==
    /\ solver' = [solver EXCEPT !.status = status, !.values = values]
    /\ pc' = "process"
    /\ UNCHANGED <<request, model, response, raised>>
    /\ UNCHANGED outside

\* solver.Solve(model): the search finished
SolveOptimal ==
    /\ pc = "solve"
    /\ ModelValid(model)
    /\ FeasibleTimes(model) # {}
    /\ \E t \in OptimalTimes(model) :
          \E q \in PlatformChoices(model, t) : Solved("OPTIMAL", WithPlatforms(t, q))

\* faulty variant: an infeasible model is answered with an assignment that
\* breaks its constraints
SolveInfeasible_Relaxed ==
    /\ pc = "solve"
    /\ ModelValid(model)
    /\ FeasibleTimes(model) = {}
    /\ Solved("FEASIBLE",
              [id \in model.train_ids |->
                  [start |-> 0, end |-> 0, delay |-> 0, platform |-> 1]])

SolveInfeasible ==
    /\ pc = "solve"
    /\ ModelValid(model)
    /\ FeasibleTimes(model) = {}
    /\ Solved("INFEASIBLE", <<>>)

\* solver.Solve(model): the time budget ran out, with or without a solution
SolveFeasible ==
    /\ pc = "solve"
    /\ ModelValid(model)
    /\ NeedsSearch(model)
    /\ \E t \in TimeSolutions(model) :
          \E q \in PlatformChoices(model, t) : Solved("FEASIBLE", WithPlatforms(t, q))

SolveUnknown ==
    /\ pc = "solve"
    /\ ModelValid(model)
    /\ NeedsSearch(model)
    /\ Solved("UNKNOWN", <<>>)

\* solver.Solve(model): the model does not validate
SolveModelInvalid ==
    /\ pc = "solve"
    /\ ~ModelValid(model)
    /\ Solved("MODEL_INVALID", <<>>)

ProcessSolution ==
    /\ pc = "process"
    /\ response' = process_solution(solver, request)
    /\ pc' = "done"
    /\ UNCHANGED <<request, model, solver, raised>>
    /\ UNCHANGED outside

\* except Exception as e: return self._create_error_response(request, str(e), ...)
Raise ==
    /\ pc \in Stages
    /\ \E e \in Exceptions(pc, request) :
          /\ raised' = e
          /\ response' = create_error_response(request, e)
    /\ pc' = "done"
    /\ UNCHANGED <<request, model, solver>>
    /\ UNCHANGED outside

\* the response is handed to the caller; the call's locals are gone
Return ==
    /\ pc = "done"
    /\ pc' = "idle"
    /\ request' = NoRequest
    /\ model' = NoModel
    /\ solver' = NoSolver
    /\ response' = NoResponse
    /\ raised' = ""
    /\ UNCHANGED outside

Next ==
    \/ Submit
    \/ CreateDecisionVariables
    \/ AddConstraints
    \/ SetObjective
    \/ ConfigureSolver
    \/ SolveOptimal
    \/ SolveInfeasible
    \/ SolveFeasible
    \/ SolveUnknown
    \/ SolveModelInvalid
    \/ ProcessSolution
    \/ Raise
    \/ Return

Spec == Init /\ [][Next]_vars

(***************************************************************************)
(* The scenario of test_optimization_with_conflicting_trains: an EXPRESS   *)
(* and a PASSENGER train on the same route and between the same stations,  *)
(* scheduled five minutes apart, in a horizon of two hours.                *)
(***************************************************************************)
ConflictHorizon == 120

ConflictT1 ==
    Train("T_CONFLICT_1", Enum("EXPRESS"), 120, 0, "StationA", "StationB",
          <<"S1", "S2">>)

ConflictT2 ==
    Train("T_CONFLICT_2", Enum("PASSENGER"), 100, 300, "StationA", "StationB",
          <<"S1", "S2">>)

ConflictRequest ==
    [request_id |-> "TEST_CONFLICT",
     time_horizon_minutes |-> ConflictHorizon,
     trains |-> <<ConflictT1, ConflictT2>>,
     constraints |-> <<Constraint("safety_1", Enum("SAFETY_DISTANCE"), TRUE, 300)>>,
     objective |-> Enum("MINIMIZE_CONFLICTS"),
     secondary_objectives |-> <<>>,
     config |-> OptimizationConfig]

SubmitConflict ==
    /\ pc = "idle"
    /\ request' = ConflictRequest
    /\ model' = NoModel
    /\ solver' = NoSolver
    /\ response' = NoResponse
    /\ raised' = ""
    /\ pc' = "variables"
    /\ UNCHANGED outside

NextConflict ==
    \/ SubmitConflict
    \/ CreateDecisionVariables
    \/ AddConstraints
    \/ SetObjective
    \/ ConfigureSolver
    \/ SolveOptimal
    \/ SolveFeasible
    \/ SolveUnknown
    \/ ProcessSolution
    \/ Raise
    \/ Return

SpecConflict == Init /\ [][NextConflict]_vars

(***************************************************************************)
(* The same request submitted again and again, each call's outcome kept    *)
(* for the comparison with the next.                                       *)
(***************************************************************************)
RepeatRequest ==
    [request_id |-> "REQ1",
     time_horizon_minutes |-> 9,
     trains |-> <<TrainT1>>,
     constraints |-> <<>>,
     objective |-> Enum("MINIMIZE_DELAY"),
     secondary_objectives |-> <<>>,
     config |-> OptimizationConfig]

\* the same request with a secondary objective
RepeatRequestSecondary ==
    [RepeatRequest EXCEPT !.secondary_objectives =
        <<WeightedObjective(Enum("MAXIMIZE_THROUGHPUT"), 30)>>]

SubmitRepeat ==
    /\ pc = "idle"
    /\ request' \in {RepeatRequest, RepeatRequestSecondary}
    /\ model' = NoModel
    /\ solver' = NoSolver
    /\ response' = NoResponse
    /\ raised' = ""
    /\ pc' = "variables"
    /\ UNCHANGED outside

\* the response is handed to the caller, who keeps it
ReturnRecorded ==
    /\ pc = "done"
    /\ previous' = [request |-> request, objective |-> model.objective,
                    response |-> response, raised |-> raised]
    /\ pc' = "idle"
    /\ request' = NoRequest
    /\ model' = NoModel
    /\ solver' = NoSolver
    /\ response' = NoResponse
    /\ raised' = ""
    /\ UNCHANGED <<active_requests, rpc, status_response, poll>>

NextRepeat ==
    \/ SubmitRepeat
    \/ CreateDecisionVariables
    \/ AddConstraints
    \/ SetObjective
    \/ ConfigureSolver
    \/ SolveOptimal
    \/ SolveFeasible
    \/ SolveUnknown
    \/ ProcessSolution
    \/ Raise
    \/ ReturnRecorded

SpecRepeat == Init /\ [][NextRepeat]_vars

(***************************************************************************)
(* Properties                                                              *)
(***************************************************************************)
\* a response has been produced and is a schedule
Scheduled == pc = "done" /\ response.status \in {"OPTIMAL", "FEASIBLE"}

\* TrainPriority, highest first: EMERGENCY > EXPRESS > MAIL > PASSENGER >
\* FREIGHT > MAINTENANCE
PriorityRank(priority) ==
    CASE priority.name = "EMERGENCY" -> 1
      [] priority.name = "EXPRESS" -> 2
      [] priority.name = "MAIL" -> 3
      [] priority.name = "PASSENGER" -> 4
      [] priority.name = "FREIGHT" -> 5
      [] OTHER -> 6

SharesSection(i, j) ==
    \E k \in DOMAIN request.trains[i].route_sections :
        \E l \in DOMAIN request.trains[j].route_sections :
            request.trains[i].route_sections[k] = request.trains[j].route_sections[l]

SharesStation(i, j) ==
    {request.trains[i].origin_station, request.trains[i].destination_station}
    \cap {request.trains[j].origin_station, request.trains[j].destination_station} # {}

\* C1: in a returned schedule, of two trains with TrainPriority priorities of
\* different rank that share a route section, the one of higher priority
\* departs no later than the other, whichever is listed first.
C1_PriorityPrecedence ==
    Scheduled =>
        \A i \in DOMAIN request.trains, j \in DOMAIN request.trains :
            ( /\ request.trains[i].priority.repr = "enum"
              /\ request.trains[j].priority.repr = "enum"
              /\ SharesSection(i, j)
              /\ PriorityRank(request.trains[i].priority)
                    < PriorityRank(request.trains[j].priority) )
            => response.optimized_schedule[i].departure
                  <= response.optimized_schedule[j].departure

\* C2: in a returned schedule, two trains that share a route section depart
\* at least five minutes apart.
C2_Headway ==
    Scheduled =>
        \A i \in DOMAIN request.trains, j \in DOMAIN request.trains :
            (i # j /\ SharesSection(i, j))
            => \/ response.optimized_schedule[i].departure
                    >= response.optimized_schedule[j].departure + 5
               \/ response.optimized_schedule[j].departure
                    >= response.optimized_schedule[i].departure + 5

\* C2 witness: two trains sharing a section are scheduled and the one listed
\* second departs first
C2_Witness ==
    /\ Scheduled
    /\ \E i \in DOMAIN request.trains, j \in DOMAIN request.trains :
          /\ i < j
          /\ SharesSection(i, j)
          /\ response.optimized_schedule[j].departure + 5
                <= response.optimized_schedule[i].departure

\* C3: in a returned schedule, two distinct trains that have a station in
\* common and the same platform occupy disjoint intervals [start, end).
C3_PlatformExclusion ==
    Scheduled =>
        \A i \in DOMAIN request.trains, j \in DOMAIN request.trains :
            ( /\ i # j
              /\ SharesStation(i, j)
              /\ response.optimized_schedule[i].platform
                    = response.optimized_schedule[j].platform )
            => \/ response.optimized_schedule[i].arrival
                    <= response.optimized_schedule[j].departure
               \/ response.optimized_schedule[j].arrival
                    <= response.optimized_schedule[i].departure

\* C3 witness: two trains with a common station are scheduled on the same
\* platform
C3_Witness ==
    /\ Scheduled
    /\ \E i \in DOMAIN request.trains, j \in DOMAIN request.trains :
          /\ i # j
          /\ SharesStation(i, j)
          /\ response.optimized_schedule[i].platform
                = response.optimized_schedule[j].platform

\* distance over min(0.8 * v, 80), in tenths of km/h, of a train
AverageSpeedX10(train) ==
    IF train.max_speed_kmh * 8 <= 800 THEN train.max_speed_kmh * 8 ELSE 800

\* the estimate of the train is computed without rounding error: the train
\* runs at the cap, or 600 * number_of_sections / (0.8 * v) is no whole number
ExactEstimate(train) ==
    \/ train.max_speed_kmh >= 100
    \/ (6000 * Len(train.route_sections)) % AverageSpeedX10(train) # 0

\* t is floor(60 * 10 * number_of_sections / min(0.8 * v, 80))
IsJourneyTime(train, t) ==
    /\ t * AverageSpeedX10(train) <= 6000 * Len(train.route_sections)
    /\ 6000 * Len(train.route_sections) < (t + 1) * AverageSpeedX10(train)

\* m is the whole number of minutes from requested_at to the scheduled
\* departure, the fraction dropped
IsScheduledOffset(train, m) ==
    IF train.scheduled_departure_s >= 0
    THEN 60 * m <= train.scheduled_departure_s /\ train.scheduled_departure_s < 60 * (m + 1)
    ELSE 60 * (m - 1) < train.scheduled_departure_s /\ train.scheduled_departure_s <= 60 * m

\* the timing rule for entry i of the returned schedule
TimingRule(i) ==
    LET entry == response.optimized_schedule[i]
        train == request.trains[i]
    IN  /\ ExactEstimate(train) => IsJourneyTime(train, entry.arrival - entry.departure)
        /\ IsScheduledOffset(train, entry.departure - entry.delay_adjustment_minutes)
        /\ entry.delay_adjustment_minutes >= 0 - 30
        /\ entry.delay_adjustment_minutes <= 60
        /\ entry.departure >= 0
        /\ entry.departure <= request.time_horizon_minutes
        /\ entry.arrival >= 0
        /\ entry.arrival <= request.time_horizon_minutes

\* C4 as stated: every entry of a returned schedule obeys the timing rule
\* (arrival = departure + journey time, departure = scheduled offset + delay,
\* delay in [-30, 60], offsets in [0, horizon]) and the journey time never
\* corresponds to an average speed above 80 km/h.
C4_TimingAndSpeedCap ==
    Scheduled =>
        \A i \in DOMAIN request.trains :
            /\ TimingRule(i)
            /\ 600 * Len(request.trains[i].route_sections)
                  <= 80 * (response.optimized_schedule[i].arrival
                            - response.optimized_schedule[i].departure)

\* C4: every entry of a returned schedule obeys the timing rule (arrival =
\* departure + journey time, departure = scheduled offset + delay, delay in
\* [-30, 60], offsets in [0, horizon]), the journey time being the estimate
\* truncated to whole minutes: it is floor(600 n / min(0.8 v, 80)) whenever
\* the estimate is computed exactly, and one minute more would correspond to
\* an average speed below 80 km/h.
C4_TimingRule ==
    Scheduled =>
        \A i \in DOMAIN request.trains :
            /\ TimingRule(i)
            /\ 600 * Len(request.trains[i].route_sections)
                  < 80 * (response.optimized_schedule[i].arrival
                            - response.optimized_schedule[i].departure + 1)

\* C4 witness: a scheduled train advanced against its timetable whose
\* truncated journey time corresponds to more than 80 km/h
C4_Witness ==
    /\ Scheduled
    /\ \E i \in DOMAIN request.trains :
          /\ ExactEstimate(request.trains[i])
          /\ response.optimized_schedule[i].delay_adjustment_minutes < 0
          /\ 600 * Len(request.trains[i].route_sections)
                > 80 * (response.optimized_schedule[i].arrival
                          - response.optimized_schedule[i].departure)

\* C5: a response with status OPTIMAL or FEASIBLE holds exactly one entry per
\* input train, entry i carrying the id of request.trains[i]; a response with
\* status INFEASIBLE or ERROR holds an empty schedule.
C5_OneEntryPerTrain ==
    pc = "done" =>
        /\ response.status \in {"OPTIMAL", "FEASIBLE"} =>
              /\ Len(response.optimized_schedule) = Len(request.trains)
              /\ \A i \in 1..Len(request.trains) :
                    response.optimized_schedule[i].train_id = request.trains[i].id
        /\ response.status \in {"INFEASIBLE", "ERROR"} =>
              Len(response.optimized_schedule) = 0

\* C5 witness: a schedule for two different trains has been returned
C5_Witness ==
    /\ Scheduled
    /\ Len(request.trains) = 2
    /\ request.trains[1].id # request.trains[2].id
    /\ Len(response.optimized_schedule) = 2

\* C6 as stated: a request whose time horizon is zero or negative, with or
\* without trains, is answered with status ERROR and a non-empty error
\* message (here: whenever the search ended within its time budget).
C6_NonPositiveHorizonIsError ==
    (pc = "done" /\ request.time_horizon_minutes <= 0 /\ solver.status # "UNKNOWN")
        => (response.status = "ERROR" /\ response.error_message # "")

\* C7: every call ends with a complete response carrying the request's id and
\* one of the five statuses, and whenever an exception was caught the
\* response is ERROR with an empty schedule, confidence 0.0 and the
\* exception's text as error message.
C7_NoExceptionEscapes ==
    /\ pc = "done" =>
          /\ response.request_id = request.request_id
          /\ response.status \in {"OPTIMAL", "FEASIBLE", "INFEASIBLE",
                                  "TIME_LIMIT_EXCEEDED", "ERROR"}
    /\ raised # "" =>
          /\ pc = "done"
          /\ response.status = "ERROR"
          /\ response.optimized_schedule = <<>>
          /\ response.confidence_score = 0
          /\ response.error_message = raised

\* C7 witness: the division by zero of a train without speed was caught
C7_Witness ==
    /\ pc = "done"
    /\ raised = "float division by zero"
    /\ response.status = "ERROR"

\* the status the spec assigns to a native solver outcome
MappedStatus(native) ==
    CASE native = "OPTIMAL" -> "OPTIMAL"
      [] native = "FEASIBLE" -> "FEASIBLE"
      [] native = "INFEASIBLE" -> "INFEASIBLE"
      [] native = "UNKNOWN" -> "TIME_LIMIT_EXCEEDED"
      [] OTHER -> "ERROR"

\* C8: the response status is determined by the solver's native outcome:
\* OPTIMAL, FEASIBLE and INFEASIBLE map to themselves, UNKNOWN to
\* TIME_LIMIT_EXCEEDED, anything else to ERROR; no response has the status
\* UNKNOWN.
C8_StatusMapping ==
    pc = "done" =>
        /\ raised = "" => response.status = MappedStatus(solver.status)
        /\ response.status # "UNKNOWN"

\* C8 witness: a response to a search that ran out of time
C8_Witness ==
    /\ pc = "done"
    /\ raised = ""
    /\ solver.status = "UNKNOWN"
    /\ response.status = "TIME_LIMIT_EXCEEDED"

\* C9 as stated: the confidence score of every response is given by its
\* status: OPTIMAL 1.0, FEASIBLE 0.85, TIME_LIMIT_EXCEEDED 0.75, INFEASIBLE
\* 0.0, ERROR 0.0 (in hundredths).
C9_ConfidenceByStatus ==
    pc = "done" =>
        response.confidence_score =
            CASE response.status = "OPTIMAL" -> 100
              [] response.status = "FEASIBLE" -> 85
              [] response.status = "TIME_LIMIT_EXCEEDED" -> 75
              [] OTHER -> 0

\* C10: every entry of every returned schedule has a platform between 1 and
\* 10.
C10_PlatformRange ==
    pc = "done" =>
        \A i \in DOMAIN response.optimized_schedule :
            /\ response.optimized_schedule[i].platform >= 1
            /\ response.optimized_schedule[i].platform <= 10

\* C10 witness: a schedule using the last platform, returned for a request
\* with custom constraints and a non-default objective
C10_Witness ==
    /\ Scheduled
    /\ request.constraints # <<>>
    /\ request.objective # Enum("MINIMIZE_DELAY")
    /\ \E i \in DOMAIN response.optimized_schedule :
          response.optimized_schedule[i].platform = 10

\* the request constraint cannot be applied: its kind has no handler, or its
\* handler raises on the parameter
Rejected(constraint) ==
    \/ constraint.type.repr # "str"
    \/ constraint.type.name \notin
          {"SAFETY_DISTANCE", "PLATFORM_CAPACITY", "TRAIN_PRIORITY",
           "MAINTENANCE_WINDOW", "SPEED_LIMIT", "CROSSING_TIME", "SIGNAL_SPACING",
           "ENERGY_EFFICIENCY", "PASSENGER_TRANSFER"}
    \/ ~constraint.numeric

Applicable(constraint) == ~Rejected(constraint)

\* the request without the constraints that cannot be applied
WithoutRejected(req) ==
    [req EXCEPT !.constraints = SelectSeq(req.constraints, Applicable)]

\* the constraint stage has acted on the model
ConstraintsApplied == pc = "objective" \/ model.objective # NoObjective

\* C11: add_constraint returns False and raises nothing for a constraint of
\* an unregistered kind or with a raising handler; the pipeline goes on: the
\* model is the one of the request without those constraints, and a call in
\* which no exception was caught ends with the status the solver's outcome
\* maps to, ERROR only for an invalid model.
C11_RejectedConstraintSkipped ==
    /\ ConstraintsApplied =>
          /\ Len(model.custom_results) = Len(request.constraints)
          /\ \A k \in DOMAIN request.constraints :
                /\ model.custom_results[k].raised = ""
                /\ Rejected(request.constraints[k])
                      => ~model.custom_results[k].added
          /\ model.constraints =
                add_constraints(create_decision_variables(WithoutRejected(request)),
                                WithoutRejected(request)).constraints
    /\ ( /\ pc = "done"
         /\ raised = ""
         /\ \E k \in DOMAIN request.constraints : Rejected(request.constraints[k]) )
       => /\ solver.status # "NONE"
          /\ response.status = "ERROR" <=> solver.status = "MODEL_INVALID"

\* C11 witness: a request with a constraint of an unregistered kind and one
\* with a non-numeric parameter has been answered with a schedule
C11_Witness ==
    /\ Scheduled
    /\ response.optimized_schedule # <<>>
    /\ \E k \in DOMAIN request.constraints :
          /\ request.constraints[k].type = Str("NOT_A_KIND")
          /\ ~model.custom_results[k].added
    /\ \E k \in DOMAIN request.constraints :
          /\ request.constraints[k].type = Str("SAFETY_DISTANCE")
          /\ ~request.constraints[k].numeric
          /\ ~model.custom_results[k].added

\* C12 as stated: when the solver reports the model infeasible the response
\* is INFEASIBLE with an empty schedule and a reasoning that advises relaxing
\* constraints, extending the time horizon or reducing train density.
C12_InfeasibleReasoning ==
    (pc = "done" /\ raised = "" /\ solver.status = "INFEASIBLE")
        => /\ response.status = "INFEASIBLE"
           /\ response.optimized_schedule = <<>>
           /\ response.reasoning =
                 "No feasible solution found. Consider relaxing constraints, "
                 \o "extending time horizon, or reducing train density."

\* C15: a request with no train and a positive horizon is answered, unless
\* an exception was caught, with status OPTIMAL, an empty schedule, a total
\* delay of 0 and an empty error message.
C15_NoTrains ==
    ( /\ pc = "done"
      /\ raised = ""
      /\ request.trains = <<>>
      /\ request.time_horizon_minutes > 0 )
    => /\ response.status = "OPTIMAL"
       /\ response.optimized_schedule = <<>>
       /\ response.kpis.total_delay_minutes = 0
       /\ response.error_message = ""

\* C15 witness: a request without trains, with a positive horizon and custom
\* constraints, has been answered
C15_Witness ==
    /\ pc = "done"
    /\ raised = ""
    /\ request.trains = <<>>
    /\ request.time_horizon_minutes > 0
    /\ request.constraints # <<>>
    /\ response.status = "OPTIMAL"

\* the lateness of the first n entries of the response, early entries
\* counting 0
RECURSIVE Lateness(_)
Lateness(n) ==
    IF n = 0 THEN 0
    ELSE Lateness(n - 1)
         + (IF response.optimized_schedule[n].delay_adjustment_minutes > 0
            THEN response.optimized_schedule[n].delay_adjustment_minutes
            ELSE 0)

\* C19: in every response kpis.total_delay_minutes is the sum over the
\* entries of max(0, delay_adjustment_minutes), and average_delay_per_train
\* is that total over the number of entries, 0 for an empty schedule.
C19_DelayMetrics ==
    pc = "done" =>
        LET n == Len(response.optimized_schedule)
            average == response.kpis.average_delay_per_train
        IN  /\ response.kpis.total_delay_minutes = Lateness(n)
            /\ average.den > 0
            /\ IF n = 0 THEN average.num = 0
               ELSE average.num * n = Lateness(n) * average.den

\* C19 witness: a schedule with a late and an early train
C19_Witness ==
    /\ Scheduled
    /\ \E i \in DOMAIN response.optimized_schedule :
          response.optimized_schedule[i].delay_adjustment_minutes > 0
    /\ \E i \in DOMAIN response.optimized_schedule :
          response.optimized_schedule[i].delay_adjustment_minutes < 0
    /\ response.kpis.total_delay_minutes > 0

\* C13 as stated, for the responses to a search that ran to its end: the
\* request of the scenario gets a schedule of two entries in which the
\* EXPRESS train departs no later than the PASSENGER train and the two
\* departures are at least five minutes apart.
C13_ConflictScenario ==
    (pc = "done" /\ request = ConflictRequest /\ raised = ""
        /\ solver.status = "OPTIMAL")
    => /\ response.status \in {"OPTIMAL", "FEASIBLE"}
       /\ Len(response.optimized_schedule) = 2
       /\ response.optimized_schedule[1].departure
             <= response.optimized_schedule[2].departure
       /\ response.optimized_schedule[2].departure
             - response.optimized_schedule[1].departure >= 5

\* every two trains of the request share a route section
PairwiseShare ==
    \A i \in DOMAIN request.trains, j \in DOMAIN request.trains :
        i # j => SharesSection(i, j)

\* n trains that pairwise share a section cannot start five minutes apart
\* inside the horizon
HeadwayOverflow ==
    /\ Len(request.trains) >= 1
    /\ PairwiseShare
    /\ 5 * (Len(request.trains) - 1) > request.time_horizon_minutes

C16_SameRequestSameSchedule ==
    ( /\ pc = "done"
      /\ previous.request = request
      /\ previous.raised = "" /\ raised = ""
      /\ previous.response.status = "OPTIMAL"
      /\ solver.status = "OPTIMAL" )
    => /\ response.status = previous.response.status
       /\ response.optimized_schedule = previous.response.optimized_schedule

\* the priority weights of the spec's MINIMIZE_DELAY objective
PriorityWeight(priority) ==
    CASE priority.name = "EMERGENCY" -> 10
      [] priority.name = "EXPRESS" -> 8
      [] priority.name = "MAIL" -> 6
      [] priority.name = "PASSENGER" -> 4
      [] priority.name = "FREIGHT" -> 2
      [] priority.name = "MAINTENANCE" -> 1
      [] OTHER -> 3

\* the sum over the first n trains of max(0, delay) times the priority
\* weight, under the assignment a
RECURSIVE WeightedLateness(_, _)
WeightedLateness(a, n) ==
    IF n = 0 THEN 0
    ELSE WeightedLateness(a, n - 1)
         + (IF a[request.trains[n].id].delay > 0
            THEN a[request.trains[n].id].delay ELSE 0)
           * PriorityWeight(request.trains[n].priority)

\* C17 as stated: for a request whose primary objective is
\* ObjectiveType.MINIMIZE_DELAY, an OPTIMAL schedule minimises the sum over
\* the trains of max(0, delay) times the priority weight: no solution of the
\* model has a smaller one.
C17_WeightedDelayMinimised ==
    ( /\ pc = "done"
      /\ raised = ""
      /\ solver.status = "OPTIMAL"
      /\ request.objective = Enum("MINIMIZE_DELAY") )
    => \A t \in FeasibleTimes(model) :
          WeightedLateness(solver.values, Len(request.trains))
             <= WeightedLateness(t, Len(request.trains))

\* C18 as stated: two requests that differ only in their secondary
\* objectives are solved against different objective expressions.
C18_SecondaryObjectivesCount ==
    ( /\ pc \in {"configure", "solve", "process", "done"}
      /\ previous.objective # NoObjective
      /\ previous.request # request
      /\ [previous.request EXCEPT !.secondary_objectives = <<>>]
            = [request EXCEPT !.secondary_objectives = <<>>] )
    => model.objective # previous.objective

(***************************************************************************)
(* The gRPC service: OptimizationServiceImpl of grpc_server.py.  One       *)
(* OptimizeSchedule call is in flight at a time and is the only writer of  *)
(* the status table; its statements are separate steps, so that status     *)
(* polls are answered between any two of them.                             *)
(***************************************************************************)
\* the request ids clients use
RequestIds == {"REQ1", "REQ2"}

\* the seconds since start_time a poll may measure
MaxElapsed == 2
ElapsedSeconds == 0..MaxElapsed

\* _convert_optimization_request: the mock request every call is turned into
MockHorizon == 120
MockTrain ==
    Train("T001", Enum("EXPRESS"), 120, 0, "StationA", "StationB",
          <<"S1", "S2", "S3">>)

convert_optimization_request(request_id) ==
    [request_id |-> request_id, time_horizon_minutes |-> MockHorizon,
     trains |-> <<MockTrain>>, constraints |-> <<>>,
     objective |-> Enum("MINIMIZE_DELAY"), secondary_objectives |-> <<>>,
     config |-> OptimizationConfig]

\* an entry of active_requests; start_time is left to the poll's measure of
\* the elapsed time, error is '' while the key is absent
Entry(status, progress, phase, error) ==
    [status |-> status, progress |-> progress, phase |-> phase, error |-> error]

\* active_requests[id] = entry
Put(table, id, entry) ==
    [k \in DOMAIN table \cup {id} |-> IF k = id THEN entry ELSE table[k]]

\* the position of the handler changes, the rest of the call is kept
At(position) == [rpc EXCEPT !.handler = position]

\* the module is loaded either inside a package, where the handlers'
\* "from .models import" works, or as a top-level module, where it raises
\* ImportError
InitServer ==
    /\ pc = "idle"
    /\ request = NoRequest
    /\ model = NoModel
    /\ solver = NoSolver
    /\ response = NoResponse
    /\ raised = ""
    /\ previous = NoPrevious
    /\ active_requests = NoRequests
    /\ rpc \in {[NoRpc EXCEPT !.relative_imports = b] : b \in BOOLEAN}
    /\ status_response = NoStatusResponse
    /\ poll = NoPoll

\* a client calls OptimizeSchedule
OptimizeSchedule(request_id) ==
    /\ rpc.handler = "none"
    /\ rpc' = [rpc EXCEPT !.handler = "convert", !.request_id = request_id]
    /\ UNCHANGED <<active_requests, status_response, poll>>
    /\ UNCHANGED engine

\* optimization_request = self._convert_optimization_request(request)
ConvertRequest ==
    /\ rpc.handler = "convert"
    /\ rpc' = IF rpc.relative_imports
              THEN At("track")
              ELSE [rpc EXCEPT !.handler = "except", !.result = "ImportError"]
    /\ UNCHANGED <<active_requests, status_response, poll>>
    /\ UNCHANGED engine

\* the key is bound to a new dict: a poll that holds the dict the key was
\* bound to keeps that dict, which nothing writes any more
Rebound(reader, table, request_id) ==
    IF reader.live /\ reader.request_id = request_id /\ request_id \in DOMAIN table
    THEN [reader EXCEPT !.live = FALSE, !.entry = table[request_id]]
    ELSE reader

\* self.active_requests[request.request_id] = {'status': 'PROCESSING', ...}
TrackRequest ==
    /\ rpc.handler = "track"
    /\ active_requests' =
          Put(active_requests, rpc.request_id,
              Entry("PROCESSING", 0, "Model Building", ""))
    /\ rpc' = At("progress")
    /\ poll' = Rebound(poll, active_requests, rpc.request_id)
    /\ UNCHANGED status_response
    /\ UNCHANGED engine

\* faulty variant: the first checkpoint is written as 50
UpdateProgress_Half ==
    /\ rpc.handler = "progress"
    /\ active_requests' =
          [active_requests EXCEPT ![rpc.request_id].progress = 50]
    /\ rpc' = At("phase")
    /\ UNCHANGED <<status_response, poll>>
    /\ UNCHANGED engine

\* ['progress'] = 25.0
UpdateProgress ==
    /\ rpc.handler = "progress"
    /\ active_requests' =
          [active_requests EXCEPT ![rpc.request_id].progress = 25]
    /\ rpc' = At("phase")
    /\ UNCHANGED <<status_response, poll>>
    /\ UNCHANGED engine

\* ['phase'] = 'Constraint Programming'
UpdatePhase ==
    /\ rpc.handler = "phase"
    /\ active_requests' =
          [active_requests EXCEPT ![rpc.request_id].phase = "Constraint Programming"]
    /\ rpc' = At("optimize")
    /\ UNCHANGED <<status_response, poll>>
    /\ UNCHANGED engine

\* response = self.optimization_engine.optimize_schedule(optimization_request):
\* the call is made
CallEngine ==
    /\ rpc.handler = "optimize"
    /\ pc = "idle"
    /\ request' = convert_optimization_request(rpc.request_id)
    /\ model' = NoModel
    /\ solver' = NoSolver
    /\ response' = NoResponse
    /\ raised' = ""
    /\ pc' = "variables"
    /\ rpc' = At("engine")
    /\ UNCHANGED <<previous, active_requests, status_response, poll>>

\* the engine's call returns its response to the handler, which goes on
\* with the response's status
EngineReturns ==
    /\ rpc.handler = "engine"
    /\ pc = "done"
    /\ pc' = "idle"
    /\ request' = NoRequest
    /\ model' = NoModel
    /\ solver' = NoSolver
    /\ response' = NoResponse
    /\ raised' = ""
    /\ rpc' = [rpc EXCEPT !.handler = "completed_progress",
                          !.result = response.status]
    /\ UNCHANGED <<previous, active_requests, status_response, poll>>

\* faulty variant: the terminal status is written before progress and phase
CompleteProgress_StatusFirst ==
    /\ rpc.handler = "completed_progress"
    /\ active_requests' =
          [active_requests EXCEPT ![rpc.request_id].status = "COMPLETED"]
    /\ rpc' = At("completed_phase")
    /\ UNCHANGED <<status_response, poll>>
    /\ UNCHANGED engine

\* ['progress'] = 100.0
CompleteProgress ==
    /\ rpc.handler = "completed_progress"
    /\ active_requests' =
          [active_requests EXCEPT ![rpc.request_id].progress = 100]
    /\ rpc' = At("completed_phase")
    /\ UNCHANGED <<status_response, poll>>
    /\ UNCHANGED engine

\* ['phase'] = 'Completed'
CompletePhase ==
    /\ rpc.handler = "completed_phase"
    /\ active_requests' =
          [active_requests EXCEPT ![rpc.request_id].phase = "Completed"]
    /\ rpc' = At("completed_status")
    /\ UNCHANGED <<status_response, poll>>
    /\ UNCHANGED engine

\* ['status'] = 'COMPLETED'
CompleteStatus ==
    /\ rpc.handler = "completed_status"
    /\ active_requests' =
          [active_requests EXCEPT ![rpc.request_id].status = "COMPLETED"]
    /\ rpc' = At("convert_response")
    /\ UNCHANGED <<status_response, poll>>
    /\ UNCHANGED engine

\* return self._convert_optimization_response(response): the engine's
\* responses all carry an OptimizationStatus member, so .value is defined
ConvertResponse ==
    /\ rpc.handler = "convert_response"
    /\ rpc' = [rpc EXCEPT !.handler = "none", !.request_id = "", !.result = "NONE"]
    /\ UNCHANGED <<active_requests, status_response, poll>>
    /\ UNCHANGED engine

\* a statement of the try block raises: the engine's call lets an exception
\* out, or the conversion of its response fails
HandlerFaults == {"optimize", "convert_response"}

RaiseInHandler ==
    /\ rpc.handler \in HandlerFaults
    /\ rpc' = [rpc EXCEPT !.handler = "except", !.result = "Exception"]
    /\ UNCHANGED <<active_requests, status_response, poll>>
    /\ UNCHANGED engine

\* faulty variant: the exception is answered without touching the table
HandleException_Silent ==
    /\ rpc.handler = "except"
    /\ rpc' = [rpc EXCEPT !.handler = "none", !.request_id = "", !.result = "NONE"]
    /\ UNCHANGED <<active_requests, status_response, poll>>
    /\ UNCHANGED engine

\* except Exception: the entry, if there is one, is marked FAILED; the
\* handler then returns the error response or, where the relative import
\* of _create_error_response fails, ends with that ImportError
HandleException ==
    /\ rpc.handler = "except"
    /\ active_requests' =
          IF rpc.request_id \in DOMAIN active_requests
          THEN [active_requests EXCEPT
                   ![rpc.request_id].status = "FAILED",
                   ![rpc.request_id].error = rpc.result]
          ELSE active_requests
    /\ rpc' = [rpc EXCEPT !.handler = "none", !.request_id = "", !.result = "NONE"]
    /\ UNCHANGED <<status_response, poll>>
    /\ UNCHANGED engine

\* the estimate of GetOptimizationStatus, in milliseconds
estimated_completion_ms(request_info, elapsed) ==
    IF request_info.status = "PROCESSING"
    THEN IF request_info.progress > 0
         THEN LET total == (elapsed * 1000 * 100) \div request_info.progress
                  rest == total - elapsed * 1000
              IN  IF rest > 0 THEN rest ELSE 0
         ELSE 30 * 1000
    ELSE 0

\* the StatusResponse GetOptimizationStatus builds
StatusResponse(table, request_id, elapsed) ==
    IF request_id \in DOMAIN table
    THEN [request_id |-> request_id,
          status |-> table[request_id].status,
          progress_percent |-> table[request_id].progress,
          current_phase |-> table[request_id].phase,
          estimated_completion_ms |->
              estimated_completion_ms(table[request_id], elapsed)]
    ELSE [request_id |-> request_id, status |-> "NOT_FOUND",
          progress_percent |-> 0, current_phase |-> "Unknown",
          estimated_completion_ms |-> 0]

\* faulty variant: a poll that finds a finished entry drops it from the table
GetOptimizationStatus_Evicting(request_id, elapsed) ==
    /\ status_response' = StatusResponse(active_requests, request_id, elapsed)
    /\ active_requests' =
          IF /\ request_id \in DOMAIN active_requests
             /\ active_requests[request_id].status = "COMPLETED"
          THEN [k \in DOMAIN active_requests \ {request_id} |-> active_requests[k]]
          ELSE active_requests
    /\ UNCHANGED <<rpc, poll>>
    /\ UNCHANGED engine

\* a client polls the status of a request id
GetOptimizationStatus(request_id, elapsed) ==
    /\ status_response' = StatusResponse(active_requests, request_id, elapsed)
    /\ UNCHANGED <<active_requests, rpc, poll>>
    /\ UNCHANGED engine

NextServer ==
    \/ \E request_id \in RequestIds : OptimizeSchedule(request_id)
    \/ ConvertRequest
    \/ TrackRequest
    \/ UpdateProgress
    \/ UpdatePhase
    \/ CallEngine
    \/ CreateDecisionVariables
    \/ AddConstraints
    \/ SetObjective
    \/ ConfigureSolver
    \/ SolveOptimal
    \/ SolveFeasible
    \/ SolveUnknown
    \/ ProcessSolution
    \/ Raise
    \/ EngineReturns
    \/ CompleteProgress
    \/ CompletePhase
    \/ CompleteStatus
    \/ ConvertResponse
    \/ RaiseInHandler
    \/ HandleException
    \/ \E request_id \in RequestIds : \E elapsed \in ElapsedSeconds :
          GetOptimizationStatus(request_id, elapsed)

SpecServer == InitServer /\ [][NextServer]_vars

\* a step that is no step of an OptimizeSchedule call
PollStep == UNCHANGED <<rpc, pc, request, model, solver, response, raised, previous>>

\* C20: GetOptimizationStatus answers NOT_FOUND, with progress 0 and
\* remaining time 0, exactly for the request ids that have no entry in
\* active_requests, and PROCESSING, COMPLETED or FAILED for every other id;
\* a poll leaves active_requests as it was.
C20_StatusPoll ==
    [][ PollStep =>
          /\ active_requests' = active_requests
          /\ LET id == status_response'.request_id
                 answer == status_response'
             IN  /\ answer.status = "NOT_FOUND" <=> id \notin DOMAIN active_requests
                 /\ answer.status = "NOT_FOUND" =>
                       /\ answer.progress_percent = 0
                       /\ answer.estimated_completion_ms = 0
                 /\ id \in DOMAIN active_requests =>
                       answer.status \in {"PROCESSING", "COMPLETED", "FAILED"} ]_vars

\* a poll was answered COMPLETED for a tracked id while another id has no entry
C20_Witness ==
    /\ status_response.status = "COMPLETED"
    /\ status_response.request_id \in DOMAIN active_requests
    /\ status_response.progress_percent = 100
    /\ \E id \in RequestIds : id \notin DOMAIN active_requests

(***************************************************************************)
(* GetOptimizationStatus statement by statement: a reader that looks the   *)
(* entry up and then reads its fields one at a time while the              *)
(* OptimizeSchedule call, the only writer, goes on between the reads.      *)
(***************************************************************************)
\* request_info as the reader sees it
request_info(reader, table) ==
    IF reader.live THEN table[reader.request_id] ELSE reader.entry

\* if request_id in self.active_requests: request_info = ...; else: NOT_FOUND
PollLookup(request_id) ==
    /\ poll.at = "idle"
    /\ IF request_id \in DOMAIN active_requests
       THEN /\ poll' = [NoPoll EXCEPT !.at = "test", !.request_id = request_id,
                                      !.live = TRUE]
            /\ UNCHANGED status_response
       ELSE /\ status_response' = StatusResponse(active_requests, request_id, 0)
            /\ UNCHANGED poll
    /\ UNCHANGED <<active_requests, rpc>>
    /\ UNCHANGED engine

\* if request_info['status'] == 'PROCESSING'
PollTestStatus ==
    /\ poll.at = "test"
    /\ LET processing == request_info(poll, active_requests).status = "PROCESSING"
       IN  poll' = [poll EXCEPT !.processing = processing,
                                !.at = IF processing THEN "estimate" ELSE "status"]
    /\ UNCHANGED <<active_requests, rpc, status_response>>
    /\ UNCHANGED engine

\* elapsed_time, progress = request_info['progress'], estimated_remaining
PollEstimate(elapsed) ==
    /\ poll.at = "estimate"
    /\ poll' = [poll EXCEPT
          !.estimated_remaining_ms =
              estimated_completion_ms(
                  [request_info(poll, active_requests) EXCEPT !.status = "PROCESSING"],
                  elapsed),
          !.at = "status"]
    /\ UNCHANGED <<active_requests, rpc, status_response>>
    /\ UNCHANGED engine

\* status=request_info['status']
PollReadStatus ==
    /\ poll.at = "status"
    /\ poll' = [poll EXCEPT !.status = request_info(poll, active_requests).status,
                            !.at = "progress"]
    /\ UNCHANGED <<active_requests, rpc, status_response>>
    /\ UNCHANGED engine

\* progress_percent=request_info['progress']
PollReadProgress ==
    /\ poll.at = "progress"
    /\ poll' = [poll EXCEPT
          !.progress_percent = request_info(poll, active_requests).progress,
          !.at = "phase"]
    /\ UNCHANGED <<active_requests, rpc, status_response>>
    /\ UNCHANGED engine

\* current_phase=request_info['phase'], and the StatusResponse is returned
PollReadPhase ==
    /\ poll.at = "phase"
    /\ status_response' =
          [request_id |-> poll.request_id,
           status |-> poll.status,
           progress_percent |-> poll.progress_percent,
           current_phase |-> request_info(poll, active_requests).phase,
           estimated_completion_ms |-> poll.estimated_remaining_ms]
    /\ poll' = NoPoll
    /\ UNCHANGED <<active_requests, rpc>>
    /\ UNCHANGED engine

\* the request id the calls and the polls of this specification share
PolledIds == {"REQ1"}

\* the engine's answer is one of its optimal ones, no answer in time or an
\* internal error: which schedule it returns does not reach the table
NextPoll ==
    \/ \E request_id \in PolledIds : OptimizeSchedule(request_id)
    \/ ConvertRequest
    \/ TrackRequest
    \/ UpdateProgress
    \/ UpdatePhase
    \/ CallEngine
    \/ CreateDecisionVariables
    \/ AddConstraints
    \/ SetObjective
    \/ ConfigureSolver
    \/ SolveOptimal
    \/ SolveUnknown
    \/ ProcessSolution
    \/ Raise
    \/ EngineReturns
    \/ CompleteProgress
    \/ CompletePhase
    \/ CompleteStatus
    \/ ConvertResponse
    \/ RaiseInHandler
    \/ HandleException
    \/ \E request_id \in PolledIds : PollLookup(request_id)
    \/ PollTestStatus
    \/ \E elapsed \in ElapsedSeconds : PollEstimate(elapsed)
    \/ PollReadStatus
    \/ PollReadProgress
    \/ PollReadPhase

SpecPoll == InitServer /\ [][NextPoll]_vars

\* the positions of an OptimizeSchedule call at which its entry is in the
\* table and no exception is being handled
InCall ==
    {"progress", "phase", "optimize", "engine", "completed_progress",
     "completed_phase", "completed_status", "convert_response"}

\* the progress the call has written when it is at a position
CheckpointAt(position) ==
    IF position = "progress" THEN 0
    ELSE IF position \in {"phase", "optimize", "engine", "completed_progress"}
         THEN 25
         ELSE 100

\* a poll answered for the request id of the call in flight
PollOfCall ==
    /\ PollStep
    /\ rpc.handler \in InCall
    /\ status_response'.request_id = rpc.request_id

C22_ErrorIsFailed ==
    (rpc.handler = "convert_response" /\ rpc.result = "ERROR")
    => active_requests[rpc.request_id].status = "FAILED"

\* C23: when no OptimizeSchedule call is in flight, every call has returned,
\* normally or by an exception at the request conversion, the optimization
\* or the response conversion, and no entry of the table is PROCESSING: each
\* id is COMPLETED, FAILED or absent.
C23_NoRequestLeftProcessing ==
    rpc.handler = "none" =>
        \A id \in DOMAIN active_requests :
            active_requests[id].status \in {"COMPLETED", "FAILED"}

\* one call failed after its entry was made, another id completed, and no
\* call is in flight
C23_Witness ==
    /\ rpc.handler = "none"
    /\ \E id \in DOMAIN active_requests :
          /\ active_requests[id].status = "FAILED"
          /\ active_requests[id].progress = 25
    /\ \E id \in DOMAIN active_requests : active_requests[id].status = "COMPLETED"

\* C30: however the reads of a status poll fall between the writes of the
\* OptimizeSchedule call on the same request id, an answer with status
\* COMPLETED has progress_percent 100 and phase 'Completed'.
C30_CompletedIsConsistent ==
    status_response.status = "COMPLETED" =>
        /\ status_response.progress_percent = 100
        /\ status_response.current_phase = "Completed"

\* a poll that found its request PROCESSING at its first read answered
\* COMPLETED: the call finished between the reads
C30_Witness ==
    /\ status_response.status = "COMPLETED"
    /\ status_response.estimated_completion_ms > 0
    /\ status_response.progress_percent = 100

\* C24 as stated: for a request constraint whose type is a member of the
\* ConstraintType enumeration, add_constraint finds the handler of the kind
\* and returns True when the handler does not raise.
C24_EnumKindHandled ==
    ( /\ pc \in {"objective", "configure", "solve", "process", "done"}
      /\ raised = "" )
    => \A k \in DOMAIN request.constraints :
          ( /\ request.constraints[k].type.repr = "enum"
            /\ request.constraints[k].type.name \in constraint_registry
            /\ ~handler_raises(request.constraints[k]) )
          => model.custom_results[k].added

(***************************************************************************)
(* Requests that carry one constraint of a kind whose handler is reached:  *)
(* the type is the plain str the registry is keyed by.                     *)
(***************************************************************************)
\* a train over a section whose name contains the name of another section
TrainT2Long ==
    Train("T2", Enum("FREIGHT"), 100, 0, "StationA", "StationB", <<"S1", "S10">>)

\* a train that ends where it starts
TrainT1Loop ==
    Train("T1", Enum("PASSENGER"), 120, 0, "StationA", "StationA", <<"S1">>)

KindTrainLists ==
    {<<TrainT1>>, <<TrainT1, TrainT2>>, <<TrainT2Long>>, <<TrainT1Loop>>}

KindHorizons == {14, 24}

KindConstraintLists ==
    {<<MaintenanceWindow("maint_1", Str("MAINTENANCE_WINDOW"), 5, 10)>>,
     <<SpeedLimit("speed_1", Str("SPEED_LIMIT"), 60, <<"S", "1">>)>>,
     <<SpeedLimit("speed_2", Str("SPEED_LIMIT"), 60, <<>>)>>,
     <<SpeedLimit("speed_3", Str("SPEED_LIMIT"), 60, <<"S", "2", ",", "S", "1", "0">>)>>,
     <<Constraint("safety_2", Str("SAFETY_DISTANCE"), TRUE, 90)>>}

KindRequests ==
    [request_id : {"REQ1"}, time_horizon_minutes : KindHorizons,
     trains : KindTrainLists, constraints : KindConstraintLists,
     objective : {Enum("MINIMIZE_DELAY")}, secondary_objectives : {<<>>},
     config : {OptimizationConfig}]

SubmitKind ==
    /\ pc = "idle"
    /\ \E req \in KindRequests : request' = req
    /\ model' = NoModel
    /\ solver' = NoSolver
    /\ response' = NoResponse
    /\ raised' = ""
    /\ pc' = "variables"
    /\ UNCHANGED outside

NextKinds ==
    \/ SubmitKind
    \/ CreateDecisionVariables
    \/ AddConstraints
    \/ SetObjective
    \/ ConfigureSolver
    \/ SolveOptimal
    \/ SolveInfeasible
    \/ SolveFeasible
    \/ SolveUnknown
    \/ ProcessSolution
    \/ Raise
    \/ Return

SpecKinds == Init /\ [][NextKinds]_vars

\* the request constraints of a kind whose handler ran to its end
AppliedOfKind(kind) ==
    {k \in DOMAIN request.constraints :
        /\ request.constraints[k].type.name = kind
        /\ model.custom_results[k].added}

\* C25 as stated: once the MAINTENANCE_WINDOW handler has been applied with
\* the window [start_time_minutes, end_time_minutes), every assignment the
\* model admits keeps every train's journey out of the window.
C25_WindowExcluded ==
    Scheduled =>
        \A k \in AppliedOfKind("MAINTENANCE_WINDOW") :
            \A id \in model.train_ids :
                \/ solver.values[id].end <= request.constraints[k].start_time_minutes
                \/ solver.values[id].start >= request.constraints[k].end_time_minutes

\* the speed variable has a constraint speed_var <= limit posted on it
Limited(sv, limit) ==
    \E c \in model.constraints :
        /\ c.kind = "speed_limit"
        /\ c.a = sv.train
        /\ c.b = sv.section
        /\ c.n = limit

\* C26 as stated: once the SPEED_LIMIT handler has been applied with the
\* section list L and the limit m, a speed variable is bounded by m if and
\* only if its section is a member of L; the others keep their bounds.
C26_ListedSectionsOnly ==
    ( /\ pc \in {"objective", "configure", "solve", "process", "done"}
      /\ raised = "" )
    => \A k \in AppliedOfKind("SPEED_LIMIT") :
          \A sv \in model.speed_vars :
              Limited(sv, request.constraints[k].max_speed_kmh)
                 <=> Chars(sv.section) \in Range(split(request.constraints[k].sections))

\* the journey times of the first n trains
RECURSIVE JourneyTimes(_)
JourneyTimes(n) ==
    IF n = 0 THEN 0
    ELSE JourneyTimes(n - 1) + calculate_journey_time(request.trains[n])

\* C27: once the SAFETY_DISTANCE handler has been applied with
\* min_distance_seconds = d, a schedule has, for every two distinct trains,
\* one starting no earlier than the other's end plus floor(d / 60) minutes,
\* and there is no schedule when the journeys and the gaps between them,
\* laid end to end, exceed the horizon.
C27_SafetyDistanceAllPairs ==
    \A k \in DOMAIN request.constraints :
        ( /\ pc = "done"
          /\ raised = ""
          /\ k \in AppliedOfKind("SAFETY_DISTANCE") )
        => LET gap == request.constraints[k].min_distance_seconds \div 60
               n == Len(request.trains)
           IN  /\ Scheduled =>
                     \A a \in model.train_ids : \A b \in model.train_ids \ {a} :
                         \/ solver.values[b].start >= solver.values[a].end + gap
                         \/ solver.values[a].start >= solver.values[b].end + gap
               /\ ( /\ n >= 1
                    /\ JourneyTimes(n) + gap * (n - 1) > request.time_horizon_minutes )
                  => ~Scheduled

\* two trains were scheduled under an applied SAFETY_DISTANCE constraint
C27_Witness ==
    /\ Scheduled
    /\ AppliedOfKind("SAFETY_DISTANCE") # {}
    /\ Cardinality(model.train_ids) = 2
    /\ Len(response.optimized_schedule) = 2

\* the train has a start inside the horizon and the delay bounds that lets
\* its journey end inside the horizon
HasStart(train, horizon) ==
    \E s \in 0..horizon :
        /\ s + calculate_journey_time(train) <= horizon
        /\ datetime_to_minutes(train.scheduled_departure_s) + MinDelay <= s
        /\ s <= datetime_to_minutes(train.scheduled_departure_s) + max_delay

\* C28 as stated: the platform-conflict rule relates two distinct trains
\* only, so a request with a single train whose origin station is its
\* destination station, with a positive journey time that fits in the
\* horizon and a reachable scheduled offset, is not made INFEASIBLE.
C28_LoopTrainNotInfeasible ==
    ( /\ pc = "done"
      /\ raised = ""
      /\ Len(request.trains) = 1
      /\ request.trains[1].origin_station = request.trains[1].destination_station
      /\ calculate_journey_time(request.trains[1]) > 0
      /\ HasStart(request.trains[1], request.time_horizon_minutes) )
    => /\ \A c \in model.constraints : c.kind = "platform_conflict" => c.a # c.b
       /\ response.status # "INFEASIBLE"

\* some train of the request has no start value inside its bounds
SomeTrainWithoutStart ==
    \E k \in DOMAIN request.trains :
        ~HasStart(request.trains[k], request.time_horizon_minutes)

====
